---- MODULE Spec2Model ----
(***************************************************************************)
(* A model of gradle-diff.py: the graph cache step of main, the source-   *)
(* control query, and the impact resolver find_affected_projects.          *)
(*                                                                         *)
(* Strings are TLA+ strings; Python's str operations (startswith, rstrip,  *)
(* <, len) are computed character by character.  A Python dict is a        *)
(* function; where the code relies on insertion order (direct_affected)    *)
(* the keys are kept as a sequence beside it.  A Python set is a set, and  *)
(* every iteration over one takes an arbitrary order.                      *)
(***************************************************************************)
EXTENDS Integers, Sequences, FiniteSets, TLC

VARIABLES
    build_files,         \* disk: the build-configuration files, name -> content
    BUCKET,              \* environment: whether GRADLE_DIFF_S3_BUCKET is set
    remote,              \* the remote store: key -> snapshot
    hash_file,           \* disk: the hash marker .gradle-diff-hash
    graph_file,          \* disk: the snapshot file GRAPH_FILE
    pc,                  \* main: position of each invocation
    task_names,          \* main: task_names
    report_arg,          \* main: whether --report was given
    current_hash,        \* main: current_hash
    stale,               \* main: stale
    report,              \* main: report
    report_written,      \* disk: whether the invocation wrote its report document
    filtered_files,      \* main: filtered_files
    exit_code,           \* exit status of the invocation, once pc is "done"
    trace,               \* history: the collaborator calls of the invocation, in order
    prev_cache,          \* history: how the previous invocation ended its cache step
    config_changed,      \* history: build_files changed since the last invocation began
    changed_files,       \* find_affected_projects: argument changed_files
    r_pc,                \* find_affected_projects: position
    projects,            \* find_affected_projects: json.load(f)
    report_data,         \* find_affected_projects: report_data / returned impact report
    dependants,          \* find_affected_projects: inverted graph
    total_affected,      \* find_affected_projects: set total_affected
    queue,               \* find_affected_projects: list queue
    transitive_reasons,  \* find_affected_projects: dict of sets
    affected_paths,      \* find_affected_projects: returned list
    enqueued             \* history: the projects appended to queue, in order

rvars == <<changed_files, r_pc, projects, report_data, dependants,
           total_affected, queue, transitive_reasons, affected_paths, enqueued>>

mvars == <<build_files, BUCKET, remote, hash_file, pc, task_names, report_arg,
           current_hash, stale, report, report_written, filtered_files, exit_code,
           trace, prev_cache, config_changed>>

vars == <<mvars, graph_file, rvars>>

-----------------------------------------------------------------------------
(* Bounds of the inputs *)

MaxEdges == 2
MaxChanges == 2
MaxProjects == 2

-----------------------------------------------------------------------------
(* Python values *)

None == "None"
EmptyDict == [k \in {} |-> {}]

FileInfo(f) == [status |-> "M", path |-> f]

(* A snapshot file: whether it exists, whether it parses, the hash of the  *)
(* configuration it was produced for, and the project list it holds.       *)
NoFile == [exists |-> FALSE, ok |-> FALSE, for |-> "", projects |-> <<>>]
Snapshot(h, ps) == [exists |-> TRUE, ok |-> TRUE, for |-> h, projects |-> ps]
(* A file cut short by a transfer or a build that failed: it does not parse. *)
Unreadable == [exists |-> TRUE, ok |-> FALSE, for |-> "", projects |-> <<>>]

(* The characters of paths, in ascending code point order (str comparison). *)
CodePoints == "-./0123456789:ABCDEFGHIJKLMNOPQRSTUVWXYZ_abcdefghijklmnopqrstuvwxyz"

ord(c) == CHOOSE i \in 1..Len(CodePoints) : SubSeq(CodePoints, i, i) = c

RECURSIVE StrLess(_, _)
StrLess(s, t) ==
    IF t = "" THEN FALSE
    ELSE IF s = "" THEN TRUE
    ELSE LET a == SubSeq(s, 1, 1)
             b == SubSeq(t, 1, 1)
         IN  IF a = b THEN StrLess(SubSeq(s, 2, Len(s)), SubSeq(t, 2, Len(t)))
             ELSE ord(a) < ord(b)

startswith(s, prefix) ==
    /\ Len(prefix) <= Len(s)
    /\ SubSeq(s, 1, Len(prefix)) = prefix

endswith(s, suffix) ==
    /\ Len(suffix) <= Len(s)
    /\ SubSeq(s, Len(s) - Len(suffix) + 1, Len(s)) = suffix

RECURSIVE rstrip_slash(_)
rstrip_slash(s) ==
    IF Len(s) > 0 /\ SubSeq(s, Len(s), Len(s)) = "/"
    THEN rstrip_slash(SubSeq(s, 1, Len(s) - 1))
    ELSE s

RECURSIVE InsertSorted(_, _)
InsertSorted(x, seq) ==
    IF seq = <<>> THEN <<x>>
    ELSE IF StrLess(x, Head(seq)) THEN <<x>> \o seq
    ELSE <<Head(seq)>> \o InsertSorted(x, Tail(seq))

RECURSIVE sorted(_)
sorted(seq) ==
    IF seq = <<>> THEN <<>>
    ELSE InsertSorted(seq[Len(seq)], sorted(SubSeq(seq, 1, Len(seq) - 1)))

(* The orders in which a Python set (or a filesystem walk) can be listed. *)
Orders(S) ==
    {f \in [1..Cardinality(S) -> S] : \A i, j \in 1..Cardinality(S) : f[i] = f[j] => i = j}

Range(seq) == {seq[i] : i \in 1..Len(seq)}

-----------------------------------------------------------------------------
(* find_affected_projects *)

Root == ":"

global_triggers ==
    <<"gradle/libs.versions.toml", "buildSrc/", "gradle.properties",
      "settings.gradle", "build.gradle", "gradle-diff.gradle">>

IsGlobalTrigger(file_path) ==
    \E i \in 1..Len(global_triggers) : startswith(file_path, global_triggers[i])

(* A check of the first changed path alone. *)
FirstGlobalTriggerHeadOnly(files) ==
    IF IsGlobalTrigger(files[1].path) THEN files[1].path ELSE None

(* The first changed path that starts with a trigger, or None. *)
FirstGlobalTrigger(files) ==
    IF \E i \in 1..Len(files) : IsGlobalTrigger(files[i].path)
    THEN LET i == CHOOSE k \in 1..Len(files) :
                      /\ IsGlobalTrigger(files[k].path)
                      /\ \A j \in 1..(k - 1) : ~IsGlobalTrigger(files[j].path)
         IN  files[i].path
    ELSE None

(* The same sort without reverse=True: shortest directory first. *)
RECURSIVE InsertByDirLenAscending(_, _)
InsertByDirLenAscending(p, seq) ==
    IF seq = <<>> THEN <<p>>
    ELSE IF Len(Head(seq).dir) <= Len(p.dir)
         THEN <<Head(seq)>> \o InsertByDirLenAscending(p, Tail(seq))
         ELSE <<p>> \o seq

(* sorted(projects, key = length of dir, reverse=True): a stable sort. *)
RECURSIVE InsertByDirLen(_, _)
InsertByDirLen(p, seq) ==
    IF seq = <<>> THEN <<p>>
    ELSE IF Len(Head(seq).dir) >= Len(p.dir)
         THEN <<Head(seq)>> \o InsertByDirLen(p, Tail(seq))
         ELSE <<p>> \o seq

RECURSIVE SortByDirLen(_)
SortByDirLen(ps) ==
    IF ps = <<>> THEN <<>>
    ELSE InsertByDirLen(ps[Len(ps)], SortByDirLen(SubSeq(ps, 1, Len(ps) - 1)))

(* Lines 147-149: the test one project makes on one file. *)
DirMatches(p, file_path) ==
    LET p_dir == rstrip_slash(p.dir)
    IN  /\ p_dir # ""
        /\ p_dir # "."
        /\ startswith(file_path, p_dir \o "/")

best_match(ps, file_path) ==
    LET order == SortByDirLen(ps)
    IN  IF \E i \in 1..Len(order) : DirMatches(order[i], file_path)
        THEN LET i == CHOOSE k \in 1..Len(order) :
                          /\ DirMatches(order[k], file_path)
                          /\ \A j \in 1..(k - 1) : ~DirMatches(order[j], file_path)
             IN  order[i].path
        ELSE None

(* Lines 142-154.  The dict direct_affected is [keys, items]: the keys in *)
(* insertion order and the list of file records of each key.             *)
RECURSIVE DirectAffected(_, _, _)
DirectAffected(ps, files, acc) ==
    IF files = <<>> THEN acc
    ELSE LET file_info == Head(files)
             best == best_match(ps, file_info.path)
         IN  IF best # None /\ best # ""
             THEN IF best \in Range(acc.keys)
                  THEN DirectAffected(ps, Tail(files),
                         [acc EXCEPT !.items[best] = Append(@, file_info)])
                  ELSE DirectAffected(ps, Tail(files),
                         [keys  |-> Append(acc.keys, best),
                          items |-> [k \in Range(acc.keys) \cup {best} |->
                                        IF k = best THEN <<file_info>> ELSE acc.items[k]]])
             ELSE DirectAffected(ps, Tail(files), acc)

(* The graph left as declared: each project mapped to its dependencies. *)
DependantsNotInverted(ps) ==
    LET paths == {ps[i].path : i \in 1..Len(ps)}
    IN  [d \in paths |->
            UNION {ps[i].dependencies \cap paths : i \in {k \in 1..Len(ps) : ps[k].path = d}}]

(* Lines 159-163. *)
Dependants(ps) ==
    LET paths == {ps[i].path : i \in 1..Len(ps)}
    IN  [d \in paths |-> {ps[i].path : i \in {k \in 1..Len(ps) : d \in ps[k].dependencies}}]

(* The membership test made on the causes recorded so far. *)
IsNewlyAffectedByReasons(dep_of_current, total, reasons) ==
    dep_of_current \notin DOMAIN reasons

(* Line 175: the dependant was not affected before. *)

IsNewlyAffected(dep_of_current, total, reasons) == dep_of_current \notin total

(* The loop body without its elif branch. *)
RecordsLaterCauseNever(dep_of_current, reasons) == FALSE

(* Line 180: a dependant affected before gets a further cause recorded. *)

RecordsLaterCause(dep_of_current, reasons) == dep_of_current \in DOMAIN reasons

(* Lines 174-181: the loop body for the dependants of current, in order. *)
RECURSIVE VisitDependants(_, _, _)
VisitDependants(order, current, st) ==
    IF order = <<>> THEN st
    ELSE LET dep_of_current == Head(order)
         IN  IF IsNewlyAffected(dep_of_current, st.total, st.reasons)
             THEN VisitDependants(Tail(order), current,
                    [total    |-> st.total \cup {dep_of_current},
                     queue    |-> Append(st.queue, dep_of_current),
                     reasons  |-> [k \in DOMAIN st.reasons \cup {dep_of_current} |->
                                     IF k = dep_of_current
                                     THEN (IF k \in DOMAIN st.reasons THEN st.reasons[k] ELSE {})
                                          \cup {current}
                                     ELSE st.reasons[k]],
                     enqueued |-> Append(st.enqueued, dep_of_current)])
             ELSE IF RecordsLaterCause(dep_of_current, st.reasons)
             THEN VisitDependants(Tail(order), current,
                    [st EXCEPT !.reasons[dep_of_current] = @ \cup {current}])
             ELSE VisitDependants(Tail(order), current, st)

EmptyReport ==
    [global_trigger    |-> None,
     direct_impact     |-> [keys |-> <<>>, items |-> EmptyDict],
     transitive_impact |-> EmptyDict]

(* Lines 110-120: a missing snapshot returns [], {}; an unreadable one    *)
(* makes json.load raise.                                                  *)
Load ==
    /\ r_pc = "load"
    /\ IF ~graph_file.exists
       THEN /\ r_pc' = "done"
            /\ affected_paths' = <<>>
            /\ report_data' = EmptyDict
            /\ UNCHANGED projects
       ELSE IF ~graph_file.ok
       THEN /\ r_pc' = "raised"
            /\ UNCHANGED <<affected_paths, report_data, projects>>
       ELSE /\ r_pc' = "global"
            /\ projects' = graph_file.projects
            /\ report_data' = EmptyReport
            /\ UNCHANGED affected_paths
    /\ UNCHANGED <<mvars, graph_file, changed_files, dependants, total_affected, queue,
                   transitive_reasons, enqueued>>

(* Line 138: the list comprehension, in the order of the project list. *)
RECURSIVE NonRootPaths(_)
NonRootPaths(ps) ==
    IF ps = <<>> THEN <<>>
    ELSE (IF Head(ps).path # Root THEN <<Head(ps).path>> ELSE <<>>) \o NonRootPaths(Tail(ps))

(* Lines 122-139. *)
GlobalTriggers ==
    /\ r_pc = "global"
    /\ LET hit == FirstGlobalTrigger(changed_files)
       IN  IF hit # None
           THEN /\ report_data' = [report_data EXCEPT !.global_trigger = hit]
                /\ affected_paths' = sorted(NonRootPaths(projects))
                /\ r_pc' = "done"
           ELSE /\ r_pc' = "direct"
                /\ UNCHANGED <<report_data, affected_paths>>
    /\ UNCHANGED <<mvars, graph_file, changed_files, projects, dependants, total_affected,
                   queue, transitive_reasons, enqueued>>

(* Lines 141-156. *)
DirectMapping ==
    /\ r_pc = "direct"
    /\ LET direct_affected ==
               DirectAffected(projects, changed_files, [keys |-> <<>>, items |-> EmptyDict])
       IN  report_data' = [report_data EXCEPT !.direct_impact = direct_affected]
    /\ r_pc' = "invert"
    /\ UNCHANGED <<mvars, graph_file, changed_files, projects, dependants, total_affected,
                   queue, transitive_reasons, affected_paths, enqueued>>

(* Lines 158-169. *)
InvertGraph ==
    /\ r_pc = "invert"
    /\ dependants' = Dependants(projects)
    /\ total_affected' = Range(report_data.direct_impact.keys)
    /\ queue' = report_data.direct_impact.keys
    /\ enqueued' = report_data.direct_impact.keys
    /\ transitive_reasons' = EmptyDict
    /\ r_pc' = "closure"
    /\ UNCHANGED <<mvars, graph_file, changed_files, projects, report_data, affected_paths>>

(* Lines 171-181: one iteration of the while loop. *)
ClosureStep ==
    /\ r_pc = "closure"
    /\ queue # <<>>
    /\ LET current == Head(queue)
           st0 == [total |-> total_affected, queue |-> Tail(queue),
                   reasons |-> transitive_reasons, enqueued |-> enqueued]
       IN  \E order \in (IF current \in DOMAIN dependants
                         THEN Orders(dependants[current]) ELSE {<<>>}) :
               LET st == VisitDependants(order, current, st0)
               IN  /\ total_affected' = st.total
                   /\ queue' = st.queue
                   /\ transitive_reasons' = st.reasons
                   /\ enqueued' = st.enqueued
    /\ UNCHANGED <<mvars, graph_file, changed_files, r_pc, projects, report_data, dependants,
                   affected_paths>>

(* Lines 183-185. *)
Return ==
    /\ r_pc = "closure"
    /\ queue = <<>>
    /\ report_data' = [report_data EXCEPT !.transitive_impact = transitive_reasons]
    /\ \E order \in Orders(total_affected) : affected_paths' = sorted(order)
    /\ r_pc' = "done"
    /\ UNCHANGED <<mvars, graph_file, changed_files, projects, dependants, total_affected,
                   queue, transitive_reasons, enqueued>>

find_affected_projects ==
    \/ Load
    \/ GlobalTriggers
    \/ DirectMapping
    \/ InvertGraph
    \/ ClosureStep
    \/ Return

-----------------------------------------------------------------------------
(* main: configuration hash, cache step, source-control query, report *)

Procs == {"p1", "p2"}

GRAPH_FILE == "project-graph.json"
Missing == "<missing>"
BuildFiles == {"build.gradle", "settings.gradle"}
Contents == {"A"}

IGNORED_PATTERNS == <<"md$", "docs/", ".gitignore", "jenkins/", "scripts/", ".github/">>

(* Lines 17-24 and 100: re.match anchors each pattern at the start of the  *)
(* path; the first pattern accepts any path that ends in .md.             *)
IsIgnored(file_path) ==
    \/ endswith(file_path, ".md")
    \/ \E i \in 2..Len(IGNORED_PATTERNS) : startswith(file_path, IGNORED_PATTERNS[i])

(* hashlib.md5: the digest of the bytes fed to it, taken as collision free. *)
md5_hexdigest(data) == "md5(" \o data \o ")"

(* Lines 30-37.  disk maps each file name to its content or Missing. *)
RECURSIVE HashInput(_, _)
HashInput(file_list, disk) ==
    IF file_list = <<>> THEN ""
    ELSE (IF disk[Head(file_list)] # Missing THEN disk[Head(file_list)] ELSE "")
         \o HashInput(Tail(file_list), disk)

(* The files hashed in the order they were listed. *)
get_hash_as_listed(file_list, disk) == md5_hexdigest(HashInput(file_list, disk))

(* Lines 30-37. *)

get_hash(file_list, disk) == md5_hexdigest(HashInput(sorted(file_list), disk))

(* Lines 368-374: os.walk lists the build scripts that exist, in any order. *)
BuildScripts(disk) == Orders({f \in BuildFiles : disk[f] # Missing})

ConfigHash(disk) == get_hash(CHOOSE l \in BuildScripts(disk) : TRUE, disk)

remote_key(h) == "graph-" \o h \o ".json"

(* The build tool's exportProjectGraph: the graph of the checkout.  The    *)
(* settings script decides the projects; the root build script, when      *)
(* there is one, makes the root project depend on :app.                    *)
ExportedGraph(disk) ==
    IF disk["settings.gradle"] = Missing
    THEN <<[path |-> ":", dir |-> "", dependencies |-> {}]>>
    ELSE <<[path |-> ":",     dir |-> "",
            dependencies |-> IF disk["build.gradle"] = Missing THEN {} ELSE {":app"}],
           [path |-> ":core", dir |-> "core/", dependencies |-> {}],
           [path |-> ":lib",  dir |-> "lib/",  dependencies |-> {":core"}],
           [path |-> ":app",  dir |-> "app/",  dependencies |-> {":lib"}]>>

(* What git diff --name-status can list. *)
GitDiffs ==
    {<<>>,
     <<FileInfo("README.md")>>,
     <<FileInfo("core/src/Foo.txt")>>,
     <<FileInfo("docs/guide.txt"), FileInfo("lib/X.txt")>>,
     <<FileInfo("app/Main.txt"), FileInfo("gradle.properties")>>}

(* Lines 91-101: the filter keeps the order of the listing. *)
RECURSIVE FilterIgnored(_)
FilterIgnored(all_files) ==
    IF all_files = <<>> THEN <<>>
    ELSE (IF IsIgnored(Head(all_files).path) THEN <<>> ELSE <<Head(all_files)>>)
         \o FilterIgnored(Tail(all_files))

(* Lines 346-354. *)
TaskArgs == {<<>>, <<"test", "assemble">>}
TaskNames(args) == IF args = <<>> THEN <<"test">> ELSE args

(* Lines 356-365. *)
InitialReport ==
    [cache             |-> [status |-> "hit", source |-> "local"],
     config_hash       |-> None,
     changes           |-> [total |-> 0, filtered |-> 0],
     file_details      |-> <<>>,
     affected_projects |-> <<>>,
     tasks             |-> <<>>,
     impact            |-> EmptyDict]

(* The expansion without the test on the root path. *)
RECURSIVE ExpandTasksKeepsRoot(_, _)
ExpandTasksKeepsRoot(paths, tasks) ==
    IF paths = <<>> THEN <<>>
    ELSE [i \in 1..Len(tasks) |-> Head(paths) \o ":" \o tasks[i]]
         \o ExpandTasksKeepsRoot(Tail(paths), tasks)

(* Lines 430-434. *)
RECURSIVE ExpandTasks(_, _)
ExpandTasks(paths, tasks) ==
    IF paths = <<>> THEN <<>>
    ELSE (IF Head(paths) = Root THEN <<>>
          ELSE [i \in 1..Len(tasks) |-> Head(paths) \o ":" \o tasks[i]])
         \o ExpandTasks(Tail(paths), tasks)

(* The marker compared with the remote key instead of the hash. *)
IsLocalHitComparesKey(graph, marker, h) ==
    /\ graph.exists
    /\ marker.exists
    /\ marker.content = remote_key(h)

(* Lines 384-397: the local cache is fresh. *)
IsLocalHit(graph, marker, h) ==
    /\ graph.exists
    /\ marker.exists
    /\ marker.content = h

(* The stale branch taken whatever the check found. *)
AfterCacheLogicAlwaysStale(is_stale) == "download"

(* Line 399: where main goes after the staleness check. *)

AfterCacheLogic(is_stale) == IF is_stale THEN "download" ELSE "git"

(* No regeneration after a fetch that failed. *)
AfterDownloadNoFallback(fetched) == "mark"

(* Lines 400-405: where main goes after the remote fetch. *)

AfterDownload(fetched) == IF fetched THEN "mark" ELSE "refresh"

(* refresh_graph returning to main whatever the build tool did. *)
AfterRefreshReturns(ok, bucket) == "mark"

(* refresh_graph without its sys.exit(1). *)
AfterRefreshNoExit(ok, bucket) == IF bucket THEN "upload" ELSE "mark"

(* Lines 69-72 and 406: where main goes after refresh_graph. *)

AfterRefresh(ok, bucket) ==
    IF ~ok THEN "exit" ELSE IF bucket THEN "upload" ELSE "mark"

(* s3_upload without its except clause. *)
AfterUploadFatal(ok) == IF ok THEN "mark" ELSE "exit"

(* Lines 56-60 and 409: where main goes after s3_upload. *)

AfterUpload(ok) == "mark"

(* Lines 104-106: where main goes after get_git_info. *)
AfterGit(outcome) == IF outcome = "FileNotFoundError" THEN "exit" ELSE "changes"

(* The resolver called whatever the filter left. *)
AfterFilterAlwaysResolves(filtered) == "resolve"

(* Lines 418-425: where main goes with the filtered change list. *)

AfterFilter(filtered) == IF filtered = <<>> THEN "report" ELSE "resolve"

(* How an invocation ended its cache step, from its calls. *)
CacheOutcome(calls) ==
    IF "refresh:fail" \in Range(calls) THEN "failed"
    ELSE IF "refresh:ok" \in Range(calls) THEN "regenerated"
    ELSE IF "fetch:ok" \in Range(calls) THEN "s3"
    ELSE IF "local_hit" \in Range(calls) THEN "local"
    ELSE "none"

Idle == \A q \in Procs : pc[q] \in {"idle", "done"}

ResolverIdle ==
    /\ changed_files = <<>>
    /\ r_pc = "idle"
    /\ projects = <<>>
    /\ report_data = EmptyDict
    /\ dependants = EmptyDict
    /\ total_affected = {}
    /\ queue = <<>>
    /\ transitive_reasons = EmptyDict
    /\ affected_paths = <<>>
    /\ enqueued = <<>>

(* The call returns: the resolver's locals are gone. *)
ResolverReturns ==
    /\ changed_files' = <<>>
    /\ r_pc' = "idle"
    /\ projects' = <<>>
    /\ report_data' = EmptyDict
    /\ dependants' = EmptyDict
    /\ total_affected' = {}
    /\ queue' = <<>>
    /\ transitive_reasons' = EmptyDict
    /\ affected_paths' = <<>>
    /\ enqueued' = <<>>

(* Lines 329-365: the arguments are parsed and the report is set up. *)
Begin(p) ==
    /\ pc' = [pc EXCEPT ![p] = "hash"]
    /\ \E args \in TaskArgs : task_names' = [task_names EXCEPT ![p] = TaskNames(args)]
    /\ \E given \in BOOLEAN : report_arg' = [report_arg EXCEPT ![p] = given]
    /\ report' = [report EXCEPT ![p] = InitialReport]
    /\ current_hash' = [current_hash EXCEPT ![p] = ""]
    /\ stale' = [stale EXCEPT ![p] = TRUE]
    /\ report_written' = [report_written EXCEPT ![p] = FALSE]
    /\ filtered_files' = [filtered_files EXCEPT ![p] = <<>>]
    /\ exit_code' = [exit_code EXCEPT ![p] = 0]
    /\ trace' = [trace EXCEPT ![p] = <<>>]
    /\ UNCHANGED <<build_files, BUCKET, remote, hash_file, graph_file, rvars>>

(* A new invocation begins, once none is running. *)
Start(p) ==
    /\ Idle
    /\ Begin(p)
    /\ prev_cache' = IF config_changed THEN "none" ELSE CacheOutcome(trace[p])
    /\ config_changed' = FALSE

(* An invocation begins whatever the others are doing; each runs once. *)
StartAlongside(p) ==
    /\ pc[p] = "idle"
    /\ Begin(p)
    /\ UNCHANGED <<prev_cache, config_changed>>

(* Lines 367-380. *)
ComputeHash(p) ==
    /\ pc[p] = "hash"
    /\ \E build_scripts \in BuildScripts(build_files) :
           LET h == get_hash(build_scripts, build_files)
           IN  /\ current_hash' = [current_hash EXCEPT ![p] = h]
               /\ report' = [report EXCEPT ![p].config_hash = h]
    /\ pc' = [pc EXCEPT ![p] = "cache"]
    /\ UNCHANGED <<build_files, BUCKET, remote, hash_file, graph_file, task_names,
                   report_arg, stale, report_written, filtered_files, exit_code, trace,
                   prev_cache, config_changed, rvars>>

(* Lines 382-397. *)
CacheLogic(p) ==
    /\ pc[p] = "cache"
    /\ LET hit == IsLocalHit(graph_file, hash_file, current_hash[p])
       IN  /\ stale' = [stale EXCEPT ![p] = ~hit]
           /\ trace' = [trace EXCEPT ![p] = IF hit THEN Append(@, "local_hit") ELSE @]
           /\ pc' = [pc EXCEPT ![p] = AfterCacheLogic(~hit)]
    /\ UNCHANGED <<build_files, BUCKET, remote, hash_file, graph_file, task_names,
                   report_arg, current_hash, report, report_written, filtered_files,
                   exit_code, prev_cache, config_changed, rvars>>

(* Lines 400-404 and s3_download, lines 39-50.  Without a bucket nothing  *)
(* is fetched.  A fetch succeeds only for a key the store holds; one that *)
(* fails after the listing may leave the snapshot file cut short.         *)
Download(p) ==
    /\ pc[p] = "download"
    /\ LET key == remote_key(current_hash[p])
       IN  \/ /\ ~BUCKET
              /\ pc' = [pc EXCEPT ![p] = AfterDownload(FALSE)]
              /\ report' = [report EXCEPT ![p].cache = [status |-> "miss", source |-> "none"]]
              /\ UNCHANGED <<graph_file, stale, trace>>
           \/ /\ BUCKET
              /\ key \in DOMAIN remote
              /\ graph_file' = remote[key]
              /\ trace' = [trace EXCEPT ![p] = Append(@, "fetch:ok")]
              /\ report' = [report EXCEPT ![p].cache = [status |-> "hit", source |-> "s3"]]
              /\ stale' = [stale EXCEPT ![p] = FALSE]
              /\ pc' = [pc EXCEPT ![p] = AfterDownload(TRUE)]
           \/ /\ BUCKET
              /\ graph_file' \in {graph_file} \cup
                                 (IF key \in DOMAIN remote THEN {Unreadable} ELSE {})
              /\ trace' = [trace EXCEPT ![p] = Append(@, "fetch:fail")]
              /\ report' = [report EXCEPT ![p].cache = [status |-> "miss", source |-> "none"]]
              /\ pc' = [pc EXCEPT ![p] = AfterDownload(FALSE)]
              /\ UNCHANGED stale
    /\ UNCHANGED <<build_files, BUCKET, remote, hash_file, task_names, report_arg,
                   current_hash, report_written, filtered_files, exit_code,
                   prev_cache, config_changed, rvars>>

(* Line 405 and refresh_graph, lines 62-72.  A build that fails may have  *)
(* left the snapshot as it was, cut short, or already written.            *)
RefreshGraph(p) ==
    /\ pc[p] = "refresh"
    /\ LET fresh == Snapshot(ConfigHash(build_files), ExportedGraph(build_files))
       IN  \E ok \in BOOLEAN :
               LET next == AfterRefresh(ok, BUCKET)
               IN  /\ graph_file' \in (IF ok THEN {fresh} ELSE {graph_file, Unreadable, fresh})
                   /\ trace' = [trace EXCEPT ![p] =
                                   Append(@, IF ok THEN "refresh:ok" ELSE "refresh:fail")]
                   /\ pc' = [pc EXCEPT ![p] = IF next = "exit" THEN "done" ELSE next]
                   /\ exit_code' = [exit_code EXCEPT ![p] = IF next = "exit" THEN 1 ELSE @]
    /\ UNCHANGED <<build_files, BUCKET, remote, hash_file, task_names, report_arg,
                   current_hash, stale, report, report_written, filtered_files,
                   prev_cache, config_changed, rvars>>

(* Lines 406-407 and s3_upload, lines 52-60. *)
Upload(p) ==
    /\ pc[p] = "upload"
    /\ \E ok \in BOOLEAN :
           LET next == AfterUpload(ok)
           IN  /\ remote' = IF ok /\ graph_file.exists
                            THEN [k \in DOMAIN remote \cup {remote_key(current_hash[p])} |->
                                     IF k = remote_key(current_hash[p]) THEN graph_file
                                     ELSE remote[k]]
                            ELSE remote
               /\ trace' = [trace EXCEPT ![p] =
                               Append(@, IF ok /\ graph_file.exists THEN "upload:ok"
                                         ELSE "upload:fail")]
               /\ pc' = [pc EXCEPT ![p] = IF next = "exit" THEN "done" ELSE next]
               /\ exit_code' = [exit_code EXCEPT ![p] = IF next = "exit" THEN 1 ELSE @]
    /\ UNCHANGED <<build_files, BUCKET, hash_file, graph_file, task_names, report_arg,
                   current_hash, stale, report, report_written, filtered_files,
                   prev_cache, config_changed, rvars>>

(* Lines 409-410. *)
WriteHash(p) ==
    /\ pc[p] = "mark"
    /\ hash_file' = [exists |-> TRUE, content |-> current_hash[p]]
    /\ trace' = [trace EXCEPT ![p] = Append(@, "mark")]
    /\ pc' = [pc EXCEPT ![p] = "git"]
    /\ UNCHANGED <<build_files, BUCKET, remote, graph_file, task_names, report_arg,
                   current_hash, stale, report, report_written, filtered_files,
                   exit_code, prev_cache, config_changed, rvars>>

(* Lines 413-416 and get_git_info, lines 74-106.  A git that exits        *)
(* non-zero raises CalledProcessError, which get_git_info turns into      *)
(* three empty lists; a git that is not installed raises                  *)
(* FileNotFoundError, which nothing catches.  The commit list is left out: *)
(* main only copies it into the report.                                    *)
GitInfo(p) ==
    /\ pc[p] = "git"
    /\ \E outcome \in {"ok", "CalledProcessError", "FileNotFoundError"} :
       \E listing \in (IF outcome = "ok" THEN GitDiffs ELSE {<<>>}) :
           LET all_files == listing
               filtered == FilterIgnored(all_files)
               next == AfterGit(outcome)
           IN  /\ trace' = [trace EXCEPT ![p] = Append(@, "git:" \o outcome)]
               /\ IF next = "exit"
                  THEN /\ pc' = [pc EXCEPT ![p] = "done"]
                       /\ exit_code' = [exit_code EXCEPT ![p] = 1]
                       /\ UNCHANGED <<report, filtered_files>>
                  ELSE /\ pc' = [pc EXCEPT ![p] = next]
                       /\ filtered_files' = [filtered_files EXCEPT ![p] = filtered]
                       /\ report' = [report EXCEPT
                                       ![p].file_details = all_files,
                                       ![p].changes = [total    |-> Len(all_files),
                                                       filtered |-> Len(filtered)]]
                       /\ UNCHANGED exit_code
    /\ UNCHANGED <<build_files, BUCKET, remote, hash_file, graph_file, task_names,
                   report_arg, current_hash, stale, report_written,
                   prev_cache, config_changed, rvars>>

(* Lines 418-423. *)
NoChanges(p) ==
    /\ pc[p] = "changes"
    /\ AfterFilter(filtered_files[p]) = "report"
    /\ report_written' = [report_written EXCEPT ![p] = report_arg[p]]
    /\ pc' = [pc EXCEPT ![p] = "done"]
    /\ exit_code' = [exit_code EXCEPT ![p] = 0]
    /\ UNCHANGED <<build_files, BUCKET, remote, hash_file, graph_file, task_names,
                   report_arg, current_hash, stale, report, filtered_files, trace,
                   prev_cache, config_changed, rvars>>

(* Line 425: the call of find_affected_projects. *)
CallResolver(p) ==
    /\ pc[p] = "changes"
    /\ AfterFilter(filtered_files[p]) = "resolve"
    /\ r_pc = "idle"
    /\ r_pc' = "load"
    /\ changed_files' = filtered_files[p]
    /\ trace' = [trace EXCEPT ![p] = Append(@, "resolve")]
    /\ pc' = [pc EXCEPT ![p] = "resolving"]
    /\ UNCHANGED <<build_files, BUCKET, remote, hash_file, graph_file, task_names,
                   report_arg, current_hash, stale, report, report_written,
                   filtered_files, exit_code, prev_cache, config_changed,
                   projects, report_data, dependants, total_affected, queue,
                   transitive_reasons, affected_paths, enqueued>>

(* Lines 425-442: the resolver returned. *)
Resolved(p) ==
    /\ pc[p] = "resolving"
    /\ r_pc = "done"
    /\ report' = [report EXCEPT
                    ![p].impact = report_data,
                    ![p].affected_projects = affected_paths,
                    ![p].tasks = IF affected_paths # <<>>
                                 THEN ExpandTasks(affected_paths, task_names[p]) ELSE @]
    /\ report_written' = [report_written EXCEPT ![p] = report_arg[p]]
    /\ pc' = [pc EXCEPT ![p] = "done"]
    /\ exit_code' = [exit_code EXCEPT ![p] = 0]
    /\ ResolverReturns
    /\ UNCHANGED <<build_files, BUCKET, remote, hash_file, graph_file, task_names,
                   report_arg, current_hash, stale, filtered_files, trace,
                   prev_cache, config_changed>>

(* Line 114: json.load raised; nothing catches it. *)
ResolverRaised(p) ==
    /\ pc[p] = "resolving"
    /\ r_pc = "raised"
    /\ pc' = [pc EXCEPT ![p] = "done"]
    /\ exit_code' = [exit_code EXCEPT ![p] = 1]
    /\ ResolverReturns
    /\ UNCHANGED <<build_files, BUCKET, remote, hash_file, graph_file, task_names,
                   report_arg, current_hash, stale, report, report_written,
                   filtered_files, trace, prev_cache, config_changed>>

(* A build-configuration file is added, edited or removed. *)
EditBuildFile ==
    /\ \E f \in BuildFiles : \E c \in (Contents \cup {Missing}) \ {build_files[f]} :
           build_files' = [build_files EXCEPT ![f] = c]
    /\ config_changed' = TRUE
    /\ UNCHANGED <<BUCKET, remote, hash_file, graph_file, pc, task_names, report_arg,
                   current_hash, stale, report, report_written, filtered_files,
                   exit_code, trace, prev_cache, rvars>>

(* Between invocations the build configuration changes. *)
ConfigChange ==
    /\ Idle
    /\ EditBuildFile

(* The build configuration changes once, whatever the invocations are doing. *)
ConfigChangeOnce ==
    /\ ~config_changed
    /\ EditBuildFile

main(p) ==
    \/ Start(p)
    \/ ComputeHash(p)
    \/ CacheLogic(p)
    \/ Download(p)
    \/ RefreshGraph(p)
    \/ Upload(p)
    \/ WriteHash(p)
    \/ GitInfo(p)
    \/ NoChanges(p)
    \/ CallResolver(p)
    \/ Resolved(p)
    \/ ResolverRaised(p)

(* Every hash the build files can have, and the snapshot made for each. *)
Configs == [BuildFiles -> Contents \cup {Missing}]
Produced(disk) == Snapshot(ConfigHash(disk), ExportedGraph(disk))

(* No invocation has run yet. *)
InitProcs ==
    /\ pc = [p \in Procs |-> "idle"]
    /\ task_names = [p \in Procs |-> <<>>]
    /\ report_arg = [p \in Procs |-> FALSE]
    /\ current_hash = [p \in Procs |-> ""]
    /\ stale = [p \in Procs |-> TRUE]
    /\ report = [p \in Procs |-> InitialReport]
    /\ report_written = [p \in Procs |-> FALSE]
    /\ filtered_files = [p \in Procs |-> <<>>]
    /\ exit_code = [p \in Procs |-> 0]
    /\ trace = [p \in Procs |-> <<>>]
    /\ prev_cache = "none"
    /\ config_changed = FALSE

InitMain ==
    /\ build_files \in Configs
    /\ BUCKET \in BOOLEAN
    /\ \E held \in SUBSET Configs :
           /\ BUCKET \/ held = {}
           /\ remote = [k \in {remote_key(ConfigHash(c)) : c \in held} |->
                           Produced(CHOOSE c \in held : remote_key(ConfigHash(c)) = k)]
    /\ hash_file = [exists |-> FALSE, content |-> ""]
    /\ graph_file = NoFile
    /\ pc = [p \in Procs |-> "idle"]
    /\ task_names = [p \in Procs |-> <<>>]
    /\ report_arg = [p \in Procs |-> FALSE]
    /\ current_hash = [p \in Procs |-> ""]
    /\ stale = [p \in Procs |-> TRUE]
    /\ report = [p \in Procs |-> InitialReport]
    /\ report_written = [p \in Procs |-> FALSE]
    /\ filtered_files = [p \in Procs |-> <<>>]
    /\ exit_code = [p \in Procs |-> 0]
    /\ trace = [p \in Procs |-> <<>>]
    /\ prev_cache = "none"
    /\ config_changed = FALSE

Init == InitMain /\ ResolverIdle

Next ==
    \/ main("p1")
    \/ find_affected_projects
    \/ ConfigChange

Spec == Init /\ [][Next]_vars

(* Two invocations in the same checkout, each run once with no task name  *)
(* and a report path, nothing ordering the steps of one against the steps *)
(* of the other; the source-control query finds nothing to resolve.       *)
StartRacing(p) ==
    /\ StartAlongside(p)
    /\ task_names'[p] = <<"test">>
    /\ report_arg'[p]

GitInfoNothingToResolve(p) ==
    /\ GitInfo(p)
    /\ filtered_files'[p] = <<>>

NextRace ==
    \/ \E p \in Procs :
           \/ StartRacing(p)
           \/ ComputeHash(p)
           \/ CacheLogic(p)
           \/ Download(p)
           \/ RefreshGraph(p)
           \/ Upload(p)
           \/ WriteHash(p)
           \/ GitInfoNothingToResolve(p)
           \/ NoChanges(p)
    \/ ConfigChangeOnce

SpecRace == Init /\ [][NextRace]_vars

(* The configuration hash alone: the build files hold any of two contents *)
(* and each invocation walks the tree and hashes what it found.           *)
HashContents == {"A", "B"}

InitHash ==
    /\ build_files \in [BuildFiles -> HashContents \cup {Missing}]
    /\ BUCKET = FALSE
    /\ remote = EmptyDict
    /\ hash_file = [exists |-> FALSE, content |-> ""]
    /\ graph_file = NoFile
    /\ InitProcs
    /\ ResolverIdle

NextHash == \E p \in Procs : StartAlongside(p) \/ ComputeHash(p)

SpecHash == InitHash /\ [][NextHash]_vars

-----------------------------------------------------------------------------
(* Inputs of the resolver *)

ChangeLists(files) ==
    UNION {[1..n -> {FileInfo(f) : f \in files}] : n \in 1..MaxChanges}


(* Graphs over a fixed layout (the layout of the documented example, with *)
(* a root project) and every choice of at most MaxEdges dependency edges, *)
(* cycles, self-dependencies and dependencies on unknown paths included.  *)
LayoutOrder == <<":", ":core", ":lib", ":app">>
LayoutDir == [p \in Range(LayoutOrder) |->
                IF p = ":" THEN "" ELSE SubSeq(p, 2, Len(p)) \o "/"]
Edges == Range(LayoutOrder) \X (Range(LayoutOrder) \cup {":ext"})
EdgeSets == {{}} \cup {{e[i] : i \in 1..MaxEdges} : e \in [1..MaxEdges -> Edges]}
LayoutGraph(E) ==
    [i \in 1..Len(LayoutOrder) |->
        [path         |-> LayoutOrder[i],
         dir          |-> LayoutDir[LayoutOrder[i]],
         dependencies |-> {e[2] : e \in {x \in E : x[1] = LayoutOrder[i]}}]]
ClosureFiles == {"core/src/Foo.txt", "lib/X.txt", "gradle.properties"}

(* Project lists of at most MaxProjects projects with distinct paths and  *)
(* every choice of directory: nested, sibling and root directories, with   *)
(* and without the trailing slash; no dependencies.                        *)
MapPaths == {":x", ":y", ":z"}
MapDirs == {"", ".", "a", "a/", "a/b", "a/b/", "ab"}
MapGraphs ==
    UNION {{ps \in [1..n -> [path : MapPaths, dir : MapDirs, dependencies : {{}}]] :
                \A i, j \in 1..n : ps[i].path = ps[j].path => i = j} :
           n \in 1..MaxProjects}
MapFiles == {"a/b/X.txt", "a/X.txt", "ab/X.txt"}

InitResolver ==
    /\ build_files = [f \in BuildFiles |-> Missing]
    /\ BUCKET = FALSE
    /\ remote = EmptyDict
    /\ hash_file = [exists |-> FALSE, content |-> ""]
    /\ pc = [p \in Procs |-> "idle"]
    /\ task_names = [p \in Procs |-> <<>>]
    /\ report_arg = [p \in Procs |-> FALSE]
    /\ current_hash = [p \in Procs |-> ""]
    /\ stale = [p \in Procs |-> TRUE]
    /\ report = [p \in Procs |-> InitialReport]
    /\ report_written = [p \in Procs |-> FALSE]
    /\ filtered_files = [p \in Procs |-> <<>>]
    /\ exit_code = [p \in Procs |-> 0]
    /\ trace = [p \in Procs |-> <<>>]
    /\ prev_cache = "none"
    /\ config_changed = FALSE
    /\ r_pc = "load"
    /\ projects = <<>>
    /\ report_data = EmptyDict
    /\ dependants = EmptyDict
    /\ total_affected = {}
    /\ queue = <<>>
    /\ transitive_reasons = EmptyDict
    /\ affected_paths = <<>>
    /\ enqueued = <<>>

InitClosure ==
    /\ graph_file \in {Snapshot("", LayoutGraph(E)) : E \in EdgeSets}
    /\ changed_files \in ChangeLists(ClosureFiles)
    /\ InitResolver

InitMap ==
    /\ graph_file \in {Snapshot("", ps) : ps \in MapGraphs}
    /\ changed_files \in ChangeLists(MapFiles)
    /\ InitResolver

InitBroken ==
    /\ graph_file \in {NoFile, Unreadable}
    /\ changed_files \in ChangeLists(ClosureFiles)
    /\ InitResolver

InitResolve == InitClosure \/ InitMap \/ InitBroken

SpecResolve == InitResolve /\ [][find_affected_projects]_vars

(* Dependency edges among the projects below the root: chains, diamonds,  *)
(* cycles of two projects and self-dependencies.                           *)
CycleEdges == (Range(LayoutOrder) \ {Root}) \X (Range(LayoutOrder) \ {Root})
CycleEdgeSets == {{}} \cup {{e[i] : i \in 1..MaxEdges} : e \in [1..MaxEdges -> CycleEdges]}
CycleFiles == {"core/src/Foo.txt", "lib/X.txt"}

(* Line 108: find_affected_projects is called on a snapshot and a change  *)
(* list.                                                                   *)
CallOnGraph ==
    /\ r_pc = "idle"
    /\ \E E \in CycleEdgeSets : graph_file' = Snapshot("", LayoutGraph(E))
    /\ changed_files' \in ChangeLists(CycleFiles)
    /\ r_pc' = "load"
    /\ UNCHANGED <<mvars, projects, report_data, dependants, total_affected, queue,
                   transitive_reasons, affected_paths, enqueued>>

InitCall ==
    /\ InitMain
    /\ build_files = [f \in BuildFiles |-> Missing]
    /\ ~BUCKET
    /\ ResolverIdle

(* The resolver runs in one thread: an iteration of the while loop that   *)
(* can be taken is taken, and so is the return once the queue is empty.    *)
SpecResolveFair ==
    /\ InitCall
    /\ [][CallOnGraph \/ find_affected_projects]_vars
    /\ WF_vars(ClosureStep)
    /\ WF_vars(Return)

-----------------------------------------------------------------------------
(* Properties of the resolver *)

ProjectSet == Range(projects)
GraphPaths == {p.path : p \in ProjectSet}
DirectSet == Range(report_data.direct_impact.keys)
Returned == r_pc = "done" /\ graph_file.exists
ReturnedClosure == Returned /\ report_data.global_trigger = None
SomeGlobalChange == \E i \in 1..Len(changed_files) : IsGlobalTrigger(changed_files[i].path)

(* The projects reachable from S along dependant edges: q is a dependant  *)
(* of p when p is a project of the graph and p is in q's dependencies.    *)
RECURSIVE ReachableFrom(_)
ReachableFrom(S) ==
    LET more == {q.path : q \in {r \in ProjectSet :
                     \E p \in S : p \in GraphPaths /\ p \in r.dependencies}}
    IN  IF more \subseteq S THEN S ELSE ReachableFrom(S \cup more)

(* C1: without a global trigger, the returned affected set is exactly the *)
(* directly affected projects plus every project reachable from one of    *)
(* them along dependant edges; so it contains the direct-impact set and   *)
(* nothing that is not reachable.                                          *)
C1_AffectedIsDependantClosure ==
    ReturnedClosure =>
        /\ Range(affected_paths) = ReachableFrom(DirectSet)
        /\ DirectSet \subseteq Range(affected_paths)

(* A change in core reached app two dependant edges away. *)
C1_Witness ==
    /\ ReturnedClosure
    /\ DirectSet = {":core"}
    /\ ":app" \in Range(affected_paths)
    /\ ":core" \notin UNION {p.dependencies : p \in {q \in ProjectSet : q.path = ":app"}}

(* C2: when some changed path starts with a global trigger, the affected  *)
(* set is every project path except the root, global_trigger is one of    *)
(* the matching changed paths, and direct_impact and transitive_impact    *)
(* are empty, whatever else the change list holds.                        *)
C2_GlobalTriggerShortCircuit ==
    (Returned /\ SomeGlobalChange) =>
        /\ Range(affected_paths) = GraphPaths \ {Root}
        /\ Len(affected_paths) = Cardinality(GraphPaths \ {Root})
        /\ report_data.global_trigger \in
               {changed_files[i].path : i \in {k \in 1..Len(changed_files) :
                                                 IsGlobalTrigger(changed_files[k].path)}}
        /\ report_data.direct_impact.keys = <<>>
        /\ report_data.transitive_impact = EmptyDict

(* The trigger came after a change inside a project that has a dependant. *)
C2_Witness ==
    /\ Returned
    /\ Len(changed_files) >= 2
    /\ changed_files[1].path = "core/src/Foo.txt"
    /\ report_data.global_trigger = "gradle.properties"
    /\ \E p \in ProjectSet : ":core" \in p.dependencies
    /\ Len(affected_paths) = 3

(* The projects a changed file was attributed to in direct_impact. *)
AttributedTo(file_info) ==
    {k \in DirectSet : file_info \in Range(report_data.direct_impact.items[k])}

(* The projects whose directory, non-empty and not the root directory, is *)
(* a prefix of the path that ends at a segment boundary.                   *)
Owners(file_path) ==
    {p \in ProjectSet :
        LET d == rstrip_slash(p.dir)
        IN  /\ d # "" /\ d # "."
            /\ Len(d) < Len(file_path)
            /\ SubSeq(file_path, 1, Len(d)) = d
            /\ SubSeq(file_path, Len(d) + 1, Len(d) + 1) = "/"}

IsStrictlySorted(seq) == \A i \in 1..(Len(seq) - 1) : StrLess(seq[i], seq[i + 1])

(* C4: the returned affected_projects is in ascending order of path, has  *)
(* no duplicate and never holds the root path.                             *)
C4_SortedWithoutRoot ==
    Returned =>
        /\ IsStrictlySorted(affected_paths)
        /\ Root \notin Range(affected_paths)

-----------------------------------------------------------------------------
(* Properties of main *)

Calls(p) == Range(trace[p])
GitFailed(p) ==
    \/ "git:CalledProcessError" \in Calls(p)
    \/ "git:FileNotFoundError" \in Calls(p)
LocalHit(p) == "local_hit" \in Calls(p)
PastCacheStep(p) == pc[p] \in {"git", "changes", "resolving", "done"}
FetchCalls == {"fetch:ok", "fetch:fail"}
RefreshCalls == {"refresh:ok", "refresh:fail"}
UploadCalls == {"upload:ok", "upload:fail"}
GitCalls == {"git:ok", "git:CalledProcessError", "git:FileNotFoundError"}

(* C5: when the source-control query fails the run aborts with a non-zero *)
(* exit status: no resolution, no report written, no exit status 0.       *)
C5_GitFailureAborts ==
    \A p \in Procs :
        GitFailed(p) =>
            /\ "resolve" \notin Calls(p)
            /\ pc[p] = "done" => (exit_code[p] # 0 /\ ~report_written[p])

(* C6: an invocation is a local hit exactly when, at the staleness check, *)
(* the snapshot file exists and the marker holds the computed hash; on a  *)
(* local hit it fetches nothing, regenerates nothing and uploads nothing, *)
(* and leaves the hash marker, the snapshot file and the remote store as  *)
(* they were.                                                              *)
C6_LocalHitHasNoSideEffect ==
    [][\A p \in Procs :
          /\ (pc[p] = "cache" /\ pc'[p] # "cache") =>
                (LocalHit(p)' <=> (/\ graph_file.exists
                                   /\ hash_file.exists
                                   /\ hash_file.content = current_hash[p]))
          /\ LocalHit(p)' =>
                /\ hash_file' = hash_file
                /\ graph_file' = graph_file
                /\ remote' = remote
                /\ Calls(p)' \cap (FetchCalls \cup RefreshCalls \cup UploadCalls \cup {"mark"}) = {}
      ]_vars

(* A local hit with a bucket configured, run to its end. *)
C6_Witness ==
    /\ LocalHit("p1")
    /\ BUCKET
    /\ pc["p1"] = "done"
    /\ "resolve" \in Calls("p1")

(* C7: after an invocation that ended its cache step with a remote hit or *)
(* a successful regeneration, and with the build files unchanged since,   *)
(* the next invocation is a local hit and calls neither the remote store  *)
(* nor the build tool.                                                     *)
C7_NextInvocationIsLocalHit ==
    \A p \in Procs :
        (prev_cache \in {"s3", "regenerated"} /\ PastCacheStep(p)) =>
            /\ LocalHit(p)
            /\ ~stale[p]
            /\ Calls(p) \cap (FetchCalls \cup RefreshCalls \cup UploadCalls) = {}

(* The invocation after a remote hit, with a bucket still configured. *)
C7_Witness ==
    /\ prev_cache = "s3"
    /\ BUCKET
    /\ pc["p1"] = "done"
    /\ LocalHit("p1")

(* C8: when graph regeneration fails the run ends at once with a non-zero *)
(* exit status: nothing is uploaded, the hash marker is not written, the  *)
(* source-control query is not made and the resolver is not invoked.      *)
C8_RefreshFailureIsFatal ==
    \A p \in Procs :
        "refresh:fail" \in Calls(p) =>
            /\ pc[p] = "done"
            /\ exit_code[p] # 0
            /\ trace[p][Len(trace[p])] = "refresh:fail"
            /\ Calls(p) \cap (UploadCalls \cup GitCalls \cup {"mark", "resolve"}) = {}

(* A regeneration failed with a bucket configured and a marker on disk. *)
C8_Witness ==
    /\ "refresh:fail" \in Calls("p1")
    /\ BUCKET
    /\ hash_file.exists
    /\ hash_file.content # current_hash["p1"]

(* C9: when the invocation is not a local hit, a fetch keyed by the       *)
(* computed hash is attempted first if a bucket is configured, and the    *)
(* graph is regenerated exactly when no fetch succeeded; a failed fetch   *)
(* does not end the run.                                                   *)
C9_FetchThenRegenerate ==
    \A p \in Procs :
        LET t == trace[p]
        IN  /\ \A i \in 1..Len(t) :
                  t[i] \in RefreshCalls =>
                      IF BUCKET THEN i > 1 /\ t[i - 1] = "fetch:fail"
                      ELSE Calls(p) \cap FetchCalls = {}
            /\ (PastCacheStep(p) /\ ~LocalHit(p)) =>
                  /\ BUCKET => Calls(p) \cap FetchCalls # {}
                  /\ (Calls(p) \cap RefreshCalls # {}) <=> ("fetch:ok" \notin Calls(p))
            /\ (pc[p] = "mark" /\ Len(t) > 0 /\ t[Len(t)] = "fetch:ok") =>
                  /\ remote_key(current_hash[p]) \in DOMAIN remote
                  /\ graph_file = remote[remote_key(current_hash[p])]
            /\ (pc[p] = "done" /\ Len(t) > 0) => t[Len(t)] # "fetch:fail"

(* A fetch failed, the graph was regenerated and the run ended with 0. *)
C9_Witness ==
    /\ BUCKET
    /\ Len(trace["p1"]) >= 2
    /\ trace["p1"][1] = "fetch:fail"
    /\ trace["p1"][2] = "refresh:ok"
    /\ pc["p1"] = "done"
    /\ exit_code["p1"] = 0

(* C10: an upload is attempted only right after a successful              *)
(* regeneration, never after a local or remote hit; after an upload that  *)
(* failed the hash marker is still written and the run goes on to the     *)
(* source-control query and, with changes to resolve, to the resolver.    *)
C10_UploadIsBestEffort ==
    \A p \in Procs :
        LET t == trace[p]
        IN  /\ \A i \in 1..Len(t) :
                  t[i] \in UploadCalls => (i > 1 /\ t[i - 1] = "refresh:ok")
            /\ Calls(p) \cap UploadCalls # {} =>
                  (~LocalHit(p) /\ "fetch:ok" \notin Calls(p))
            /\ \A i \in 1..Len(t) :
                  t[i] = "upload:fail" =>
                      /\ IF i = Len(t) THEN pc[p] = "mark"
                         ELSE /\ t[i + 1] = "mark"
                              /\ hash_file = [exists |-> TRUE, content |-> current_hash[p]]
                      /\ PastCacheStep(p) /\ pc[p] # "git" =>
                            (Len(t) >= i + 2 /\ t[i + 2] \in GitCalls)
                      /\ (pc[p] = "done" /\ filtered_files[p] # <<>>) => "resolve" \in Calls(p)
                      /\ (pc[p] = "done" /\ "git:FileNotFoundError" \notin Calls(p)
                            /\ graph_file.ok) => exit_code[p] = 0

(* An upload failed and the run still resolved its changes and ended with 0. *)
C10_Witness ==
    /\ "upload:fail" \in Calls("p1")
    /\ "resolve" \in Calls("p1")
    /\ pc["p1"] = "done"
    /\ exit_code["p1"] = 0
    /\ report["p1"].tasks # <<>>

(* The source-control query returned and the filter left nothing. *)
EmptyFiltered(p) ==
    /\ Calls(p) \cap {"git:ok", "git:CalledProcessError"} # {}
    /\ filtered_files[p] = <<>>

(* C11: when the filtered change list is empty the resolver is never      *)
(* invoked in that run, the reported task list and affected-project list  *)
(* are empty, and the run ends with exit status 0.                         *)
C11_NoChangesNoResolution ==
    \A p \in Procs :
        EmptyFiltered(p) =>
            /\ "resolve" \notin Calls(p)
            /\ pc[p] \in {"changes", "done"}
            /\ report[p].tasks = <<>>
            /\ report[p].affected_projects = <<>>
            /\ pc[p] = "done" => (exit_code[p] = 0 /\ report_written[p] = report_arg[p])

(* Files had changed, all of them ignored, and the run ended. *)
C11_Witness ==
    /\ "git:ok" \in Calls("p1")
    /\ report["p1"].changes.total > 0
    /\ filtered_files["p1"] = <<>>
    /\ pc["p1"] = "done"
    /\ report_written["p1"]

NonRoot(paths) == SelectSeq(paths, LAMBDA x : x # Root)

(* C12: the task list is the expansion of the affected projects, the root *)
(* path left out, by the task names: one entry project:task for every     *)
(* pair, in affected-project order then task-name order, so its length is *)
(* the number of non-root affected projects times the number of task      *)
(* names.                                                                  *)
C12_TasksAreExpansion ==
    \A p \in Procs :
        (pc[p] = "done" /\ "resolve" \in Calls(p) /\ exit_code[p] = 0) =>
            LET ps == NonRoot(report[p].affected_projects)
                ts == task_names[p]
                n  == Len(ts)
            IN  /\ n >= 1
                /\ Len(report[p].tasks) = Len(ps) * n
                /\ \A i \in 1..Len(ps) : \A j \in 1..n :
                      report[p].tasks[(i - 1) * n + j] = ps[i] \o ":" \o ts[j]

(* The root was among the affected projects; two task names over the three *)
(* other projects gave six entries.                                        *)
C12_Witness ==
    /\ pc["p1"] = "done"
    /\ Root \in Range(report["p1"].affected_projects)
    /\ task_names["p1"] = <<"test", "assemble">>
    /\ Len(report["p1"].tasks) = 6
    /\ report["p1"].tasks[6] = ":lib:assemble"

NoDuplicate(seq) == \A i, j \in 1..Len(seq) : seq[i] = seq[j] => i = j

(* C13: resolving any change list over any graph, with dependency cycles  *)
(* and self-dependencies, terminates; every project is put on the queue   *)
(* at most once, and each affected project is once in the returned list.  *)
C13_ClosureTerminates ==
    /\ [](NoDuplicate(enqueued) /\ NoDuplicate(queue) /\ NoDuplicate(affected_paths))
    /\ [](r_pc = "done" /\ graph_file.exists =>
              (report_data.global_trigger = None => Range(affected_paths) = Range(enqueued)))
    /\ [](r_pc = "closure" => <>(r_pc = "done"))

(* core and lib depend on each other; a change in core affected both. *)
C13_Witness ==
    /\ ReturnedClosure
    /\ \E a, b \in ProjectSet :
           /\ a.path = ":core" /\ ":lib" \in a.dependencies
           /\ b.path = ":lib" /\ ":core" \in b.dependencies
    /\ DirectSet = {":core"}
    /\ affected_paths = <<":core", ":lib">>
    /\ enqueued = <<":core", ":lib">>

(* C14: when the snapshot is missing or does not parse at resolution time *)
(* the resolver yields an empty affected set and the run does not abort:  *)
(* it ends with an empty task list and exit status 0.                      *)
C14_BrokenSnapshotIsNotFatal ==
    \A p \in Procs :
        (pc[p] = "done" /\ "resolve" \in Calls(p) /\ ~(graph_file.exists /\ graph_file.ok)) =>
            /\ exit_code[p] = 0
            /\ report[p].affected_projects = <<>>
            /\ report[p].tasks = <<>>

OnDisk == {f \in BuildFiles : build_files[f] # Missing}

(* C15: the configuration hash depends only on the build files and their  *)
(* contents: get_hash gives the hash the invocation computed for every    *)
(* ordering of the same file list, with or without files that do not      *)
(* exist in it, and two invocations on unchanged files compute the same.  *)
C15_HashIgnoresOrder ==
    \A p \in Procs :
        pc[p] = "cache" =>
            /\ \A S \in SUBSET BuildFiles :
                  OnDisk \subseteq S =>
                      \A file_list \in Orders(S) :
                          get_hash(file_list, build_files) = current_hash[p]
            /\ \A q \in Procs : pc[q] = "cache" => current_hash[q] = current_hash[p]
            /\ report[p].config_hash = current_hash[p]

(* Two files with different contents, hashed by both invocations. *)
C15_Witness ==
    /\ build_files["build.gradle"] = "B"
    /\ build_files["settings.gradle"] = "A"
    /\ \A p \in Procs : pc[p] = "cache" /\ current_hash[p] = "md5(BA)"

(* C16: whenever a project is popped from the queue and one of its        *)
(* dependants is already in the affected set, the popped project is       *)
(* recorded as a cause of that dependant in the transitive reasons, and   *)
(* the dependant is not put on the queue again; also when the dependant   *)
(* is in the affected set because it was directly affected.                *)
C16_LaterCauseIsRecorded ==
    [][(r_pc = "closure" /\ queue # <<>>) =>
          LET current == Head(queue)
              deps == IF current \in DOMAIN dependants THEN dependants[current] ELSE {}
          IN  \A d \in deps :
                  d \in total_affected =>
                      /\ d \in DOMAIN transitive_reasons'
                      /\ current \in transitive_reasons'[d]
                      /\ Cardinality({i \in 1..Len(enqueued') : enqueued'[i] = d})
                            = Cardinality({i \in 1..Len(enqueued) : enqueued[i] = d})
      ]_vars

DeclaredDependencies(d) == UNION {p.dependencies : p \in {q \in ProjectSet : q.path = d}}

(* C18: when resolution ends without a global trigger, transitive_impact  *)
(* has an entry for exactly the affected projects that are not directly   *)
(* affected, and the entry of such a project is not empty and is exactly  *)
(* the set of its declared dependencies that are in the affected set.      *)
C18_TransitiveImpactEntries ==
    ReturnedClosure =>
        LET impact == report_data.transitive_impact
            affected == Range(affected_paths)
        IN  /\ DOMAIN impact \cap DirectSet = {}
            /\ DOMAIN impact \cup DirectSet = affected
            /\ \A d \in DOMAIN impact :
                  /\ impact[d] # {}
                  /\ impact[d] = DeclaredDependencies(d) \cap affected

(* A project reached from two affected dependencies, one after the other. *)
C18_Witness ==
    /\ ReturnedClosure
    /\ \E d \in DOMAIN report_data.transitive_impact :
           /\ Cardinality(report_data.transitive_impact[d]) = 2
           /\ d \notin report_data.transitive_impact[d]
    /\ Len(affected_paths) = 3

(* C19: over invocations that run one after the other, with the build     *)
(* files changing in between and every fetch or regeneration succeeding   *)
(* or failing, whenever an invocation takes the local-hit path the        *)
(* snapshot on disk was produced for the hash that invocation computed.   *)
C19_LocalHitSnapshotIsCurrent ==
    \A p \in Procs :
        LocalHit(p) =>
            /\ graph_file.ok
            /\ graph_file.for = current_hash[p]

BothCompleted == \A p \in Procs : pc[p] = "done"
BothSucceeded == BothCompleted /\ \A p \in Procs : exit_code[p] = 0
MarkerMatchesSnapshot ==
    /\ hash_file.exists
    /\ graph_file.ok
    /\ hash_file.content = graph_file.for

(* C17: two invocations interleaved in one checkout are not coordinated   *)
(* and race on the hash marker and the snapshot file.  Once both have     *)
(* completed, the marker holds the hash one of them computed and nothing  *)
(* ties it to the snapshot: only when the configuration did not change,   *)
(* so that both computed the same hash, are marker and snapshot sure to   *)
(* agree; with different hashes an interleaving leaves the marker naming  *)
(* a hash the snapshot was not produced for.                               *)
C17_RaceOnMarkerAndSnapshot ==
    /\ \A p \in Procs :
          "mark" \in Calls(p) =>
              /\ hash_file.exists
              /\ hash_file.content \in {current_hash[q] : q \in {r \in Procs : "mark" \in Calls(r)}}
    /\ (BothSucceeded /\ ~config_changed) =>
          /\ current_hash["p1"] = current_hash["p2"]
          /\ MarkerMatchesSnapshot

(* Both invocations fetched the snapshot of their own hash and ended with *)
(* status 0; the marker is the first one's, the snapshot the second's.    *)
C17_Witness ==
    /\ BothSucceeded
    /\ current_hash["p1"] # current_hash["p2"]
    /\ \A p \in Procs : "fetch:ok" \in Calls(p) /\ Calls(p) \cap RefreshCalls = {}
    /\ hash_file.content = current_hash["p1"]
    /\ graph_file.ok
    /\ graph_file.for = current_hash["p2"]

====
